---- MODULE Spec2Model ----
(***************************************************************************)
(* Model of the cpp-gtest-gmock template.                                  *)
(*                                                                         *)
(* Part 1 (Spec): the computation unit AlgebraClass with its injected      *)
(* noise capability (the MockNoise test double) and its optional logger.   *)
(* Part 2 (ScriptSpec): the volume-initialization script                   *)
(* .devcontainer/init-volumes.sh run against a Docker environment.         *)
(***************************************************************************)
EXTENDS Integers, Sequences, FiniteSets, TLC

\* ------------------------------------------------------------------ bounds
MaxValue == 2
MaxNoise == 1
MaxSquares == 3
MaxLongOps == 3
MaxRuns == 2

\* ------------------------------------------------------ part 1: the state
VARIABLES
  value,          \* the unit's current numeric value
  noise_,         \* the unit's noise capability reference (NoNoise = null)
  logger_,        \* the unit's logger reference (NoLogger = null)
  supplied,       \* what the caller passed to the constructor
  attached,       \* the argument of the latest setLogger call
  pending,        \* the mock's programmed WillOnce action, <<>> once consumed
  addNoiseCalls,  \* number of addNoise invocations on the mock
  squareCalls,    \* number of square() invocations
  longOpCalls,    \* number of long-operation invocations
  longOpCount,    \* per logger: long operations invoked while it was attached
  logTrace,       \* per logger: the messages delivered to it, in order
  lastCall        \* the latest call on the unit and how it ended

\* ------------------------------------------------------ part 2: the state
VARIABLES
  pc,             \* the script's position: the step to run next, or "exited"
  exitCode,       \* <<>> while running, <<c>> once exited with status c
  dockerInPath,   \* `command -v docker` succeeds
  daemonUp,       \* `docker info` succeeds
  volumes,        \* the Docker volumes that exist
  imageLocal,     \* the image is available locally
  permsFixed,     \* this run's permission fix succeeded
  verifiedAs,     \* the user this run's write verification succeeded as
  reported,       \* "Volume initialization complete!" was printed in this run
  stepsRun,       \* the steps started in this run, in order
  failedStep,     \* <<>> or <<s>>: the step of this run that failed
  createCalls,    \* `docker volume create` invocations in this run
  pullCalls,      \* `docker pull` invocations in this run
  runs            \* number of script runs started

algebraVars == <<value, noise_, logger_, supplied, attached, pending,
                 addNoiseCalls, squareCalls, longOpCalls, longOpCount,
                 logTrace, lastCall>>
scriptVars == <<pc, exitCode, dockerInPath, daemonUp, volumes, imageLocal,
                permsFixed, verifiedAs, reported, stepsRun, failedStep,
                createCalls, pullCalls, runs>>
vars == <<algebraVars, scriptVars>>

\* --------------------------------------------------- part 1: definitions
NoNoise == "NoNoise"
MockNoise == "MockNoise"
NoLogger == "NoLogger"
Loggers == {"L1", "L2"}
Values == 0..MaxValue
NoiseValues == 0..MaxNoise

\* What a WillOnce clause of the test double can be programmed to do.
MockActions == [kind : {"Return"}, val : NoiseValues]
                 \cup {[kind |-> "Throw", val |-> 0]}

NoError == "NoError"
UnmetDependency == "UnmetDependency"
NoiseFailure == "NoiseFailure"

NoCall == [op |-> "none", error |-> NoError, result |-> <<>>, noise |-> <<>>,
           streak |-> 0]

\* The start/completion pair one long operation reports.
LongOpMessages == <<"start", "completion">>

\* The mock's action for the next addNoise call as the test programmed it:
\* the pending WillOnce clause, or gmock's default (return 0) once consumed.
Programmed == IF pending = <<>> THEN [kind |-> "Return", val |-> 0]
              ELSE pending[1]

\* --- mutants of the constructor
AlgebraClassDropsNoise(noise) == NoNoise
AlgebraClassDefaultNoise(noise) == IF noise = NoNoise THEN MockNoise ELSE noise

\* AlgebraClass(const INoise* noise) : noise_(noise) {}
\* The value the constructor gives the noise_ member.
AlgebraClass(noise) == noise

\* --- mutants of setLogger
setLoggerDropsLogger(logger) == NoLogger
setLoggerIgnoresNull(logger) == IF logger = NoLogger THEN logger_ ELSE logger
setLoggerKeepsFirst(logger) == IF logger_ = NoLogger THEN logger ELSE logger_

\* void setLogger(ILogger* logger) { logger_ = logger; }
\* The value the call gives the logger_ member.
setLogger(logger) == logger

\* --- mutants of the mock's addNoise
addNoiseBaseMagnitude ==
  [action |-> IF Programmed.kind = "Throw" THEN Programmed
              ELSE [kind |-> "Return", val |-> 0],
   pending |-> <<>>]
addNoiseSwallowsThrow ==
  [action |-> IF Programmed.kind = "Throw" THEN [kind |-> "Return", val |-> 0]
              ELSE Programmed,
   pending |-> <<>>]

\* MOCK_METHOD(float, addNoise, (), (const, override)) under
\* EXPECT_CALL(mock_noise, addNoise).WillOnce(...): one call performs the
\* pending WillOnce action and consumes it; a call beyond it gets the default.
addNoise == [action |-> Programmed, pending |-> <<>>]

\* --- mutant of square: squares the value in place
squareInPlace ==
  IF noise_ = NoNoise
  THEN [error |-> UnmetDependency, result |-> <<>>, value |-> value,
        calls |-> 0, pending |-> pending]
  ELSE LET r == addNoise IN
       IF r.action.kind = "Throw"
       THEN [error |-> NoiseFailure, result |-> <<>>, value |-> value,
             calls |-> 1, pending |-> r.pending]
       ELSE [error |-> NoError, result |-> <<value * value + r.action.val>>,
             value |-> value * value, calls |-> 1, pending |-> r.pending]

\* square(): the unmet-dependency check comes first; otherwise one call to
\* the noise capability, whose failure propagates, and value*value + noise.
square ==
  IF noise_ = NoNoise
  THEN [error |-> UnmetDependency, result |-> <<>>, value |-> value,
        calls |-> 0, pending |-> pending]
  ELSE LET r == addNoise IN
       IF r.action.kind = "Throw"
       THEN [error |-> NoiseFailure, result |-> <<>>, value |-> value,
             calls |-> 1, pending |-> r.pending]
       ELSE [error |-> NoError, result |-> <<value * value + r.action.val>>,
             value |-> value, calls |-> 1, pending |-> r.pending]

\* The long operation: start and completion through the attached logger,
\* nothing when no logger is attached.
longOp ==
  IF logger_ = NoLogger THEN logTrace
  ELSE [logTrace EXCEPT ![logger_] = @ \o LongOpMessages]

\* ------------------------------------------------------- part 1: actions
ScriptIdle ==
  /\ pc = "exited" /\ exitCode = <<>> /\ dockerInPath = FALSE
  /\ daemonUp = FALSE /\ volumes = {} /\ imageLocal = FALSE
  /\ permsFixed = FALSE /\ verifiedAs = "none" /\ reported = FALSE
  /\ stepsRun = <<>> /\ failedStep = <<>> /\ createCalls = 0
  /\ pullCalls = 0 /\ runs = 0

\* Construction: an initial value and the noise dependency (possibly none);
\* no logger attached; the test double not yet programmed.
Init ==
  /\ value \in Values
  /\ supplied \in {NoNoise, MockNoise}
  /\ noise_ = AlgebraClass(supplied)
  /\ logger_ = NoLogger
  /\ attached = NoLogger
  /\ pending = <<>>
  /\ addNoiseCalls = 0
  /\ squareCalls = 0
  /\ longOpCalls = 0
  /\ longOpCount = [l \in Loggers |-> 0]
  /\ logTrace = [l \in Loggers |-> <<>>]
  /\ lastCall = NoCall
  /\ ScriptIdle

\* EXPECT_CALL(mock_noise, addNoise).WillOnce(a): the test programs the double.
ExpectCall(a) ==
  /\ pending' = <<a>>
  /\ UNCHANGED <<value, noise_, logger_, supplied, attached, addNoiseCalls,
                 squareCalls, longOpCalls, longOpCount, logTrace, lastCall>>
  /\ UNCHANGED scriptVars

\* What the test double is programmed to contribute to the next square().
SquareNoise == IF supplied = NoNoise THEN <<>> ELSE <<Programmed>>

Square ==
  /\ squareCalls < MaxSquares
  /\ LET s == square IN
       /\ value' = s.value
       /\ pending' = s.pending
       /\ addNoiseCalls' = addNoiseCalls + s.calls
       /\ lastCall' = [op |-> "square", error |-> s.error,
                       result |-> s.result,
                       noise |-> SquareNoise,
                       streak |-> IF /\ lastCall.op = "square"
                                     /\ lastCall.error = NoError
                                     /\ s.error = NoError
                                     /\ lastCall.noise = SquareNoise
                                  THEN lastCall.streak + 1
                                  ELSE 1]
  /\ squareCalls' = squareCalls + 1
  /\ UNCHANGED <<noise_, logger_, supplied, attached, longOpCalls,
                 longOpCount, logTrace>>
  /\ UNCHANGED scriptVars

SetLogger(l) ==
  /\ logger_' = setLogger(l)
  /\ attached' = l
  /\ lastCall' = [op |-> "setLogger", error |-> NoError, result |-> <<>>,
                  noise |-> <<>>, streak |-> 0]
  /\ UNCHANGED <<value, noise_, supplied, pending, addNoiseCalls,
                 squareCalls, longOpCalls, longOpCount, logTrace>>
  /\ UNCHANGED scriptVars

LongOp ==
  /\ longOpCalls < MaxLongOps
  /\ logTrace' = longOp
  /\ longOpCalls' = longOpCalls + 1
  /\ longOpCount' = IF attached = NoLogger THEN longOpCount
                    ELSE [longOpCount EXCEPT ![attached] = @ + 1]
  /\ lastCall' = [op |-> "longOp", error |-> NoError, result |-> <<>>,
                  noise |-> <<>>, streak |-> 0]
  /\ UNCHANGED <<value, noise_, logger_, supplied, attached, pending,
                 addNoiseCalls, squareCalls>>
  /\ UNCHANGED scriptVars

Next ==
  \/ \E a \in MockActions : ExpectCall(a)
  \/ Square
  \/ \E l \in Loggers \cup {NoLogger} : SetLogger(l)
  \/ LongOp

Spec == Init /\ [][Next]_vars

\* ------------------------------------------------------- part 1: claims
RECURSIVE Repeat(_)
\* k repetitions of (start, completion).
Repeat(k) == IF k = 0 THEN <<>> ELSE LongOpMessages \o Repeat(k - 1)

\* A step that is one square() call, one long operation.
SquareStep == squareCalls' = squareCalls + 1
LongOpStep == longOpCalls' = longOpCalls + 1

\* C1: square() on a unit built with value v and a noise capability that
\* returns n (n = 0 included) returns exactly v*v + n.
C1_SquareIsValueSquaredPlusNoise ==
  (/\ lastCall.op = "square"
   /\ supplied = MockNoise
   /\ lastCall.noise[1].kind = "Return")
  => /\ lastCall.error = NoError
     /\ lastCall.result = <<value * value + lastCall.noise[1].val>>

\* C1 witness: value 2 with noise 1 returned 5.
C1_Witness ==
  /\ lastCall.op = "square"
  /\ supplied = MockNoise
  /\ value = 2
  /\ lastCall.noise = <<[kind |-> "Return", val |-> 1]>>
  /\ lastCall.result = <<5>>

C3_OneAddNoisePerSquare ==
  supplied = MockNoise => addNoiseCalls = squareCalls

\* C3 witness: three square() calls, three addNoise invocations.
C3_Witness ==
  /\ supplied = MockNoise
  /\ squareCalls = 3
  /\ addNoiseCalls = 3

\* C4: each logger's message trace is k repetitions of (start, completion),
\* k the number of long operations invoked while that logger was attached.
C4_LongOpLogsStartThenCompletion ==
  \A l \in Loggers : logTrace[l] = Repeat(longOpCount[l])

\* C4 witness: two long operations on one logger, four messages in order.
C4_Witness ==
  \E l \in Loggers :
    /\ longOpCount[l] = 2
    /\ logTrace[l] = <<"start", "completion", "start", "completion">>

\* C5: when the noise capability fails during square(), the failure reaches
\* the caller: no result, no default noise in its place, and the capability
\* was invoked exactly once for that call.
C5_NoiseFailurePropagates ==
  [][(SquareStep /\ supplied = MockNoise /\ Programmed.kind = "Throw")
     => /\ lastCall'.error = NoiseFailure
        /\ lastCall'.result = <<>>
        /\ addNoiseCalls' = addNoiseCalls + 1]_vars

\* C5 witness: a square() call that ended in the noise capability's failure.
C5_Witness ==
  /\ lastCall.op = "square"
  /\ supplied = MockNoise
  /\ lastCall.noise = <<[kind |-> "Throw", val |-> 0]>>
  /\ lastCall.error = NoiseFailure

\* C6: only square() raises an error; setLogger and the long operation end
\* without error in every state, and a long operation invoked while no
\* logger is attached delivers no message.
C6_OnlySquareRaises ==
  [][/\ (lastCall'.error # NoError => lastCall'.op = "square")
     /\ (LongOpStep /\ attached = NoLogger => logTrace' = logTrace)]_vars

\* C6 witness: a long operation that ended without error on a unit with
\* neither a logger nor a noise capability.
C6_Witness ==
  /\ lastCall.op = "longOp"
  /\ lastCall.error = NoError
  /\ attached = NoLogger
  /\ supplied = NoNoise
  /\ \A l \in Loggers : logTrace[l] = <<>>

\* C7: a long operation sends its start and completion to the logger of the
\* latest setLogger call and to no other: a replaced logger gets nothing more.
C7_ReplacedLoggerGetsNothing ==
  [][(LongOpStep /\ attached \in Loggers)
     => logTrace' = [logTrace EXCEPT ![attached] = @ \o LongOpMessages]]_vars

\* C7 witness: L1 got one long operation, was replaced by L2, and L2 got the
\* two that followed.
C7_Witness ==
  /\ lastCall.op = "longOp"
  /\ attached = "L2"
  /\ logTrace["L1"] = LongOpMessages
  /\ logTrace["L2"] = LongOpMessages \o LongOpMessages

\* C8: square() leaves the value, the noise reference and the logger
\* attachment as they were, and a square() that follows a square() with the
\* same noise contribution returns the same result.
C8_SquareOnlyReads ==
  [][SquareStep
     => /\ value' = value
        /\ noise_' = noise_
        /\ logger_' = logger_
        /\ (lastCall'.streak > 1 => lastCall'.result = lastCall.result)]_vars

\* C8 witness: three consecutive square() calls, value 2 and noise 1, each 5.
C8_Witness ==
  /\ lastCall.op = "square"
  /\ lastCall.streak = 3
  /\ value = 2
  /\ lastCall.result = <<5>>

\* --------------------------------------------------- part 2: definitions
VSCODE_VOLUME == "cpp-dev-vscode-server"
CACHE_VOLUME == "cpp-dev-cache"

\* The user a container of the image runs as when no --user is given.
ImageUser == "developer"

\* --- mutant of main: the permission fix is left out
MainStepsWithoutFix ==
  <<"check_docker", "create_volume_vscode", "create_volume_cache",
    "check_image", "verify_permissions", "report">>

\* main: the steps in the order main calls them, then the completion report.
MainSteps ==
  <<"check_docker", "create_volume_vscode", "create_volume_cache",
    "check_image", "fix_permissions", "verify_permissions", "report">>

\* Where main continues when the given step returns.
After(step) ==
  LET i == CHOOSE k \in 1..Len(MainSteps) : MainSteps[k] = step
  IN MainSteps[i + 1]

\* --- mutant of fatal: reports the error and returns to its caller
fatalReturns(cont) == [pc |-> cont, exitCode |-> <<>>]

\* fatal: error "$1"; exit 1.  cont is where the script would go on if
\* fatal returned.
fatal(cont) == [pc |-> "exited", exitCode |-> <<1>>]

\* A step ends in fatal.
Abort(step) ==
  LET f == fatal(After(step)) IN
    /\ pc' = f.pc
    /\ exitCode' = f.exitCode
    /\ failedStep' = <<step>>

\* A step returns to main.
Return(step) ==
  /\ pc' = After(step)
  /\ UNCHANGED <<exitCode, failedStep>>

\* ------------------------------------------------------- part 2: actions
AlgebraIdle ==
  /\ value = 0 /\ noise_ = NoNoise /\ logger_ = NoLogger
  /\ supplied = NoNoise /\ attached = NoLogger /\ pending = <<>>
  /\ addNoiseCalls = 0 /\ squareCalls = 0 /\ longOpCalls = 0
  /\ longOpCount = [l \in Loggers |-> 0]
  /\ logTrace = [l \in Loggers |-> <<>>]
  /\ lastCall = NoCall

\* main "$@" has just been entered, in any Docker environment.
ScriptInit ==
  /\ pc = MainSteps[1]
  /\ exitCode = <<>>
  /\ dockerInPath \in BOOLEAN
  /\ daemonUp \in BOOLEAN
  /\ volumes \in SUBSET {VSCODE_VOLUME, CACHE_VOLUME}
  /\ imageLocal \in BOOLEAN
  /\ permsFixed = FALSE
  /\ verifiedAs = "none"
  /\ reported = FALSE
  /\ stepsRun = <<>>
  /\ failedStep = <<>>
  /\ createCalls = 0
  /\ pullCalls = 0
  /\ runs = 1
  /\ AlgebraIdle

check_docker ==
  /\ pc = "check_docker"
  /\ stepsRun' = Append(stepsRun, "check_docker")
  /\ IF ~dockerInPath THEN Abort("check_docker")
     ELSE IF ~daemonUp THEN Abort("check_docker")
     ELSE Return("check_docker")
  /\ UNCHANGED <<dockerInPath, daemonUp, volumes, imageLocal, permsFixed,
                 verifiedAs, reported, createCalls, pullCalls, runs>>
  /\ UNCHANGED algebraVars

\* --- mutant of create_volume: creates without inspecting first
create_volumeAlways(volume_name, step) ==
  /\ pc = step
  /\ stepsRun' = Append(stepsRun, step)
  /\ createCalls' = createCalls + 1
  /\ \E created \in BOOLEAN :
       IF created
       THEN volumes' = volumes \cup {volume_name} /\ Return(step)
       ELSE volumes' = volumes /\ Abort(step)
  /\ UNCHANGED <<dockerInPath, daemonUp, imageLocal, permsFixed, verifiedAs,
                 reported, pullCalls, runs>>
  /\ UNCHANGED algebraVars

create_volume(volume_name, step) ==
  /\ pc = step
  /\ stepsRun' = Append(stepsRun, step)
  /\ IF volume_name \in volumes
     THEN /\ Return(step)
          /\ UNCHANGED <<volumes, createCalls>>
     ELSE /\ createCalls' = createCalls + 1
          /\ \E created \in BOOLEAN :
               IF created
               THEN volumes' = volumes \cup {volume_name} /\ Return(step)
               ELSE volumes' = volumes /\ Abort(step)
  /\ UNCHANGED <<dockerInPath, daemonUp, imageLocal, permsFixed, verifiedAs,
                 reported, pullCalls, runs>>
  /\ UNCHANGED algebraVars

check_image ==
  /\ pc = "check_image"
  /\ stepsRun' = Append(stepsRun, "check_image")
  /\ IF imageLocal
     THEN /\ Return("check_image")
          /\ UNCHANGED <<imageLocal, pullCalls>>
     ELSE /\ pullCalls' = pullCalls + 1
          /\ \E pulled \in BOOLEAN :
               IF pulled
               THEN imageLocal' = TRUE /\ Return("check_image")
               ELSE imageLocal' = imageLocal /\ Abort("check_image")
  /\ UNCHANGED <<dockerInPath, daemonUp, volumes, permsFixed, verifiedAs,
                 reported, createCalls, runs>>
  /\ UNCHANGED algebraVars

fix_permissions ==
  /\ pc = "fix_permissions"
  /\ stepsRun' = Append(stepsRun, "fix_permissions")
  /\ \E fixed \in BOOLEAN :
       IF fixed
       THEN permsFixed' = TRUE /\ Return("fix_permissions")
       ELSE permsFixed' = permsFixed /\ Abort("fix_permissions")
  /\ UNCHANGED <<dockerInPath, daemonUp, volumes, imageLocal, verifiedAs,
                 reported, createCalls, pullCalls, runs>>
  /\ UNCHANGED algebraVars

verify_permissions ==
  /\ pc = "verify_permissions"
  /\ stepsRun' = Append(stepsRun, "verify_permissions")
  /\ \E writable \in BOOLEAN :
       IF writable
       THEN verifiedAs' = ImageUser /\ Return("verify_permissions")
       ELSE verifiedAs' = verifiedAs /\ Abort("verify_permissions")
  /\ UNCHANGED <<dockerInPath, daemonUp, volumes, imageLocal, permsFixed,
                 reported, createCalls, pullCalls, runs>>
  /\ UNCHANGED algebraVars

\* The end of main: "Volume initialization complete!", the volume list, and
\* the script ends with the status of its last command.
Report ==
  /\ pc = "report"
  /\ reported' = TRUE
  /\ pc' = "exited"
  /\ exitCode' = <<0>>
  /\ UNCHANGED <<dockerInPath, daemonUp, volumes, imageLocal, permsFixed,
                 verifiedAs, stepsRun, failedStep, createCalls, pullCalls,
                 runs>>
  /\ UNCHANGED algebraVars

\* The script is run again in the environment the previous run left.
Rerun ==
  /\ pc = "exited"
  /\ runs < MaxRuns
  /\ runs' = runs + 1
  /\ pc' = MainSteps[1]
  /\ exitCode' = <<>>
  /\ permsFixed' = FALSE
  /\ verifiedAs' = "none"
  /\ reported' = FALSE
  /\ stepsRun' = <<>>
  /\ failedStep' = <<>>
  /\ createCalls' = 0
  /\ pullCalls' = 0
  /\ UNCHANGED <<dockerInPath, daemonUp, volumes, imageLocal>>
  /\ UNCHANGED algebraVars

ScriptNext ==
  \/ check_docker
  \/ create_volume(VSCODE_VOLUME, "create_volume_vscode")
  \/ create_volume(CACHE_VOLUME, "create_volume_cache")
  \/ check_image
  \/ fix_permissions
  \/ verify_permissions
  \/ Report
  \/ Rerun

ScriptSpec == ScriptInit /\ [][ScriptNext]_vars

\* ------------------------------------------------------- part 2: claims
IsPrefix(s, t) == Len(s) <= Len(t) /\ \A i \in 1..Len(s) : s[i] = t[i]

\* The order of the steps as the claim states it.
C9_Order ==
  <<"check_docker", "create_volume_vscode", "create_volume_cache",
    "check_image", "fix_permissions", "verify_permissions">>

\* C9: the steps of a run start in the fixed order check_docker,
\* create_volume (vscode), create_volume (cache), check_image,
\* fix_permissions, verify_permissions; once a step has failed the script has
\* exited with a non-zero status and that step is the last one started.
C9_StepsInOrderFirstFailureExits ==
  /\ IsPrefix(stepsRun, C9_Order)
  /\ failedStep # <<>>
       => /\ pc = "exited"
          /\ exitCode # <<>>
          /\ exitCode[1] # 0
          /\ stepsRun # <<>>
          /\ stepsRun[Len(stepsRun)] = failedStep[1]

\* C9 witness: the pull failed in check_image; the run stopped there, status 1.
C9_Witness ==
  /\ failedStep = <<"check_image">>
  /\ stepsRun = <<"check_docker", "create_volume_vscode",
                  "create_volume_cache", "check_image">>
  /\ pc = "exited"
  /\ exitCode = <<1>>

\* C10: completion is reported, and the status is 0, only when Docker is
\* reachable, both volumes exist, the image is local, the permission fix and
\* the write verification as the non-root user succeeded, and no step failed.
C10_CompleteOnlyAfterAllSucceeded ==
  (reported \/ exitCode = <<0>>)
  => /\ dockerInPath /\ daemonUp
     /\ {VSCODE_VOLUME, CACHE_VOLUME} \subseteq volumes
     /\ imageLocal
     /\ permsFixed
     /\ verifiedAs \notin {"none", "root"}
     /\ failedStep = <<>>
     /\ stepsRun = C9_Order

\* C10 witness: a run from an environment with no volume and no image that
\* created both volumes, pulled the image and reported completion, status 0.
C10_Witness ==
  /\ reported
  /\ exitCode = <<0>>
  /\ createCalls = 2
  /\ pullCalls = 1

\* Both named volumes exist and the image is available locally.
Ready ==
  /\ {VSCODE_VOLUME, CACHE_VOLUME} \subseteq volumes
  /\ imageLocal

\* C11: a step issues `docker volume create` only for a volume that does not
\* exist and `docker pull` only when the image is not local; from a state
\* where both volumes and the image exist no step creates or pulls, the
\* volumes and the image stay as they are, neither create_volume nor
\* check_image fails, and the end of main reports completion with status 0.
C11_AcquisitionIsIdempotent ==
  [][/\ createCalls' > createCalls
          => \/ pc = "create_volume_vscode" /\ VSCODE_VOLUME \notin volumes
             \/ pc = "create_volume_cache" /\ CACHE_VOLUME \notin volumes
     /\ pullCalls' > pullCalls => pc = "check_image" /\ ~imageLocal
     /\ Ready
          => /\ createCalls' <= createCalls
             /\ pullCalls' <= pullCalls
             /\ volumes' = volumes
             /\ imageLocal' = imageLocal
             /\ failedStep' \notin {<<"create_volume_vscode">>,
                                    <<"create_volume_cache">>,
                                    <<"check_image">>}
             /\ pc = "report" => reported' /\ exitCode' = <<0>>]_vars

\* C11 witness: a second run, started with both volumes and the image
\* present, that created nothing, pulled nothing and reported completion.
C11_Witness ==
  /\ runs = 2
  /\ Ready
  /\ createCalls = 0
  /\ pullCalls = 0
  /\ stepsRun = C9_Order
  /\ reported
  /\ exitCode = <<0>>
====
